---- MODULE Spec2Model ----
(***************************************************************************)
(* Model of the VoiceEngineServer named-pipe server                        *)
(* (src/VoiceServer/VoiceServer.py): engine initialisation, the accept     *)
(* loop of PipeServerThread.run, request dispatch, chunked responses and   *)
(* the registry writes that register the SAPI adapter and the voices.      *)
(*                                                                         *)
(* Python strings are sequences of atoms, so that str.split and the        *)
(* f-strings are computed, not assumed: "en-US-Jenny" is                   *)
(* <<"en", "-", "US", "-", "Jenny">>.  Python's None is the value None.    *)
(***************************************************************************)
EXTENDS Integers, Sequences, FiniteSets, TLC

(***************************************************************************)
(* Strings                                                                 *)
(***************************************************************************)
None == <<"None">>
Dash == "-"

Microsoft == <<"Microsoft">>
Google == <<"Google">>
Polly == <<"Polly">>
SherpaOnnx == <<"SherpaOnnx">>
Missing == <<"Missing">>

\* the order in which load_config and init_engines visit the engines
EngineOrder == <<Microsoft, Google, Polly, SherpaOnnx>>

RECURSIVE SelectInOrder(_, _)
SelectInOrder(order, S) ==
    IF order = <<>> THEN <<>>
    ELSE IF Head(order) \in S
         THEN <<Head(order)>> \o SelectInOrder(Tail(order), S)
         ELSE SelectInOrder(Tail(order), S)

Range(s) == {s[i] : i \in DOMAIN s}

\* load_config: one entry per section present in the file, inserted in the
\* fixed order of the four `if ... in config` tests.
load_config(sections) == SelectInOrder(EngineOrder, sections)

\* init_engines(engines): visits the four engines in the fixed order; an
\* engine is kept when it is configured and its client, TTS object and
\* get_voices() probe raise nothing.
\* as init_engines, but keeping the engines whose probe raised
init_engines_unprobed(configured, probeFails) ==
    SelectInOrder(EngineOrder, Range(configured))

init_engines(configured, probeFails) ==
    SelectInOrder(EngineOrder, Range(configured) \ probeFails)

(***************************************************************************)
(* The registration store: winreg under HKEY_LOCAL_MACHINE.                *)
(* store[view] maps each existing key below ...\Speech\Voices\Tokens to    *)
(* its values; a key is a path of components, a values map goes from value *)
(* names to strings.  View "64" is SOFTWARE\Microsoft\..., view "32" is    *)
(* SOFTWARE\WOW6432Node\Microsoft\...                                      *)
(***************************************************************************)
Views == <<"64", "32">>

NoValues == [n \in {} |-> <<>>]
EmptyRegistry == [k \in {} |-> NoValues]

libs_directory == <<"cwd", "\\", "_libs">>
engine_dll == libs_directory \o <<"\\", "pysapittsengine.dll">>

TokenKey(engine_name) == << <<"PYTTS-">> \o engine_name >>
AdapterKey == << <<"PYTTS-", "Microsoft">>, <<"InprocServer32">> >>

\* winreg.CreateKey: creates the key and every missing ancestor, or opens
\* it when it exists; existing values are kept.
CreateKey(reg, key) ==
    LET prefixes == {SubSeq(key, 1, n) : n \in 1..Len(key)}
    IN  [k \in (DOMAIN reg) \cup prefixes |->
            IF k \in DOMAIN reg THEN reg[k] ELSE NoValues]

\* winreg.SetValueEx(key, name, 0, REG_SZ, value)
SetValueEx(reg, key, name, value) ==
    [reg EXCEPT ![key] =
        [n \in (DOMAIN reg[key]) \cup {name} |->
            IF n = name THEN value ELSE reg[key][n]]]

ApplyOp(reg, op) ==
    IF op.kind = "CreateKey" THEN CreateKey(reg, op.key)
    ELSE SetValueEx(reg, op.key, op.name, op.value)

\* as RunOps, but creating a key that already exists raises
RECURSIVE RunOps_exclusive(_, _, _, _)
RunOps_exclusive(st, ops, i, failAt) ==
    IF i > Len(ops) THEN [store |-> st, raised |-> FALSE]
    ELSE IF i = failAt THEN [store |-> st, raised |-> TRUE]
    ELSE IF ops[i].kind = "CreateKey" /\ ops[i].key \in DOMAIN st[ops[i].view]
    THEN [store |-> st, raised |-> TRUE]
    ELSE RunOps_exclusive(
            [st EXCEPT ![ops[i].view] = ApplyOp(st[ops[i].view], ops[i])],
            ops, i + 1, failAt)

\* Runs the registry calls ops[1], ops[2], ... on st; the call number failAt
\* raises OSError and the later ones are not reached (failAt = 0: none).
RECURSIVE RunOps(_, _, _, _)
RunOps(st, ops, i, failAt) ==
    IF i > Len(ops) THEN [store |-> st, raised |-> FALSE]
    ELSE IF i = failAt THEN [store |-> st, raised |-> TRUE]
    ELSE RunOps([st EXCEPT ![ops[i].view] = ApplyOp(st[ops[i].view], ops[i])],
                ops, i + 1, failAt)

KeyOp(view, key) ==
    [view |-> view, kind |-> "CreateKey", key |-> key, name |-> "", value |-> <<>>]
ValueOp(view, key, name, value) ==
    [view |-> view, kind |-> "SetValueEx", key |-> key, name |-> name, value |-> value]

\* the body of `for key_path in key_paths` in register_sapi_engine
SapiOps(view, dll) ==
    << KeyOp(view, AdapterKey),
       ValueOp(view, AdapterKey, "", dll),
       ValueOp(view, AdapterKey, "ThreadingModel", <<"Both">>) >>

\* register_sapi_engine: 64-bit path, then 32-bit path; any exception is
\* caught and turns the result into False.
register_sapi_engine(st, dll, failAt) ==
    LET r == RunOps(st, SapiOps(Views[1], dll) \o SapiOps(Views[2], dll), 1, failAt)
    IN  [store |-> r.store, ret |-> ~r.raised]

\* is_engine_registered: OpenKey on the path it is given, which run passes
\* as the 64-bit InprocServer32 path.
is_engine_registered(st) == AdapterKey \in DOMAIN st[Views[1]]

\* voice_id.split("-", 1): the position of the first "-", 0 when none
FirstDash(s) ==
    IF \E i \in DOMAIN s : s[i] = Dash
    THEN CHOOSE i \in DOMAIN s : s[i] = Dash /\ \A j \in 1..(i - 1) : s[j] # Dash
    ELSE 0

\* as VoiceOps, but without the attributes the backend gave no value for
VoiceOps_unfilled(view, engine_name, voice_name) ==
    LET key == TokenKey(engine_name)
    IN  << KeyOp(view, key),
           ValueOp(view, key, "", engine_name \o <<" - ">> \o voice_name \o <<" (409)">>),
           ValueOp(view, key, "Name", voice_name),
           ValueOp(view, key, "Vendor", engine_name),
           ValueOp(view, key, "Age", <<"Adult">>),
           ValueOp(view, key, "Path", libs_directory),
           ValueOp(view, key, "Module", <<"voices">>),
           ValueOp(view, key, "Class", engine_name \o <<"Voice">>) >>

\* the body of `for key_path in key_paths` in register_voice
VoiceOps(view, engine_name, voice_name) ==
    LET key == TokenKey(engine_name)
    IN  << KeyOp(view, key),
           ValueOp(view, key, "", engine_name \o <<" - ">> \o voice_name \o <<" (409)">>),
           ValueOp(view, key, "Name", voice_name),
           ValueOp(view, key, "Vendor", engine_name),
           ValueOp(view, key, "Language", <<"409">>),
           ValueOp(view, key, "Gender", <<"Female">>),
           ValueOp(view, key, "Age", <<"Adult">>),
           ValueOp(view, key, "Path", libs_directory),
           ValueOp(view, key, "Module", <<"voices">>),
           ValueOp(view, key, "Class", engine_name \o <<"Voice">>) >>

\* register_voice(voice_id).  ret is "True" or "None" (the except branch
\* falls off the end).  When voice_id is None or holds no "-", the split or
\* its unpacking raises inside the try, and the except branch's log line
\* reads voice_name, which is unbound: that second exception leaves the
\* function (raised).
register_voice(st, voice_id, failAt) ==
    LET p == IF voice_id = None THEN 0 ELSE FirstDash(voice_id)
    IN  IF p = 0
        THEN [store |-> st, ret |-> "None", raised |-> TRUE]
        ELSE LET engine_name == SubSeq(voice_id, 1, p - 1)
                 voice_name == SubSeq(voice_id, p + 1, Len(voice_id))
                 r == RunOps(st, VoiceOps(Views[1], engine_name, voice_name)
                                  \o VoiceOps(Views[2], engine_name, voice_name),
                             1, failAt)
             IN  [store |-> r.store,
                  ret |-> IF r.raised THEN "None" ELSE "True",
                  raised |-> FALSE]

(***************************************************************************)
(* Responses and frames.  A frame is one WriteFile call: the bytes lo..hi  *)
(* of the JSON text of a document, or one audio chunk.                     *)
(***************************************************************************)
chunk_size == 60 * 1024

NoDoc == [none |-> TRUE]

\* len(json.dumps(doc).encode()): a voices list carries its serialised
\* size; every other response is a short object.
JsonLen(doc) ==
    IF "size" \in DOMAIN doc THEN doc.size
    ELSE IF "voices" \in DOMAIN doc THEN 34 + doc.voices.bytes ELSE 64

Frame(doc, lo, hi) == [kind |-> "json", doc |-> doc, lo |-> lo, hi |-> hi]
WholeFrame(doc) == Frame(doc, 0, JsonLen(doc))
EmptyFrame == [kind |-> "json", doc |-> NoDoc, lo |-> 0, hi |-> 0]
AudioFrame(c) == [kind |-> "audio", doc |-> [audio |-> c], lo |-> 0, hi |-> 0]

Min(a, b) == IF a < b THEN a ELSE b

\* the JSON documents of which at least one byte was written
Docs(w) == {w[i].doc : i \in {j \in DOMAIN w : w[j].kind = "json"}} \ {NoDoc}

\* WriteFile called once per planned frame; call number wfail raises
\* (the client has gone) and ends the sequence (wfail = 0: none fails).
TryWrites(planned, wfail) ==
    IF wfail \in 1..Len(planned)
    THEN [written |-> SubSeq(planned, 1, wfail - 1), raised |-> TRUE]
    ELSE [written |-> planned, raised |-> FALSE]

\* send_large_data: the JSON text in chunks of chunk_size bytes, one write
\* each, then one empty write; an exception of a write is logged and
\* swallowed.
RECURSIVE Chunks(_, _)
Chunks(doc, i) ==
    IF i >= JsonLen(doc) THEN <<>>
    ELSE <<Frame(doc, i, Min(i + chunk_size, JsonLen(doc)))>>
         \o Chunks(doc, i + chunk_size)

send_large_data(data, wfail) ==
    TryWrites(Chunks(data, 0) \o <<EmptyFrame>>, wfail).written

NoVoicesFound == [status |-> "error", message |-> "No voices found"]

\* as fetch_voices_doc, but without the test for an empty result
fetch_voices_doc_unchecked(gv) ==
    IF gv.kind = "raise" THEN [status |-> "error", message |-> gv.message]
    ELSE [status |-> "success", voices |-> gv.voices]

\* as fetch_voices_doc, but with a fixed text in place of str(e)
fetch_voices_doc_fixedText(gv) ==
    IF gv.kind = "raise" THEN [status |-> "error", message |-> "Error fetching voices"]
    ELSE IF gv.kind = "none" \/ gv.voices.count = 0 THEN NoVoicesFound
    ELSE [status |-> "success", voices |-> gv.voices]

\* fetch_voices: the document it hands to send_large_data.  gv is what the
\* backend's get_voices() does: raise, or return None or a list.
fetch_voices_doc(gv) ==
    IF gv.kind = "raise" THEN [status |-> "error", message |-> gv.message]
    ELSE IF gv.kind = "none" \/ gv.voices.count = 0 THEN NoVoicesFound
    ELSE [status |-> "success", voices |-> gv.voices]

\* as fetch_voices, but a failed write of the response is followed by an
\* error Response
fetch_voices_resends(gv, wfail) ==
    LET w == TryWrites(Chunks(fetch_voices_doc(gv), 0) \o <<EmptyFrame>>, wfail)
    IN  IF w.raised
        THEN w.written \o send_large_data([status |-> "error", message |-> "write failed"], 0)
        ELSE w.written

fetch_voices(gv, wfail) == send_large_data(fetch_voices_doc(gv), wfail)

\* as speak_text_streamed, but an exception of the generator is reported
\* with an error Response after the chunks
speak_text_streamed_reports(sp, voice, activeVoice, wfail) ==
    IF sp.setRaises
    THEN [written |-> <<>>, raised |-> TRUE, active |-> activeVoice]
    ELSE LET w == TryWrites([i \in 1..Len(sp.chunks) |-> AudioFrame(sp.chunks[i])], wfail)
         IN  [written |-> IF sp.genRaises /\ ~w.raised
                          THEN w.written \o <<WholeFrame([status |-> "error",
                                                         message |-> "boom"])>>
                          ELSE w.written,
              raised |-> w.raised \/ sp.genRaises,
              active |-> voice]

\* as speak_text_streamed, but with an empty write after the last chunk
speak_text_streamed_terminated(sp, voice, activeVoice, wfail) ==
    IF sp.setRaises
    THEN [written |-> <<>>, raised |-> TRUE, active |-> activeVoice]
    ELSE LET w == TryWrites([i \in 1..Len(sp.chunks) |-> AudioFrame(sp.chunks[i])]
                            \o <<EmptyFrame>>, wfail)
         IN  [written |-> w.written,
              raised |-> w.raised \/ sp.genRaises,
              active |-> voice]

\* speak_text_streamed: set_voice(voice) on the engine, whatever voice is,
\* then one write per chunk the generator yields.  sp is what the backend
\* does: setRaises, the chunks it yields, and whether it raises after them.
speak_text_streamed(sp, voice, activeVoice, wfail) ==
    IF sp.setRaises
    THEN [written |-> <<>>, raised |-> TRUE, active |-> activeVoice]
    ELSE LET w == TryWrites([i \in 1..Len(sp.chunks) |-> AudioFrame(sp.chunks[i])], wfail)
         IN  [written |-> w.written,
              raised |-> w.raised \/ sp.genRaises,
              active |-> voice]

(***************************************************************************)
(* Inputs: what clients send and what the environment does                 *)
(***************************************************************************)
Jenny == <<"en", Dash, "US", Dash, "Jenny">>
MicrosoftJenny == Microsoft \o <<Dash>> \o Jenny
MicrosoftGuy == Microsoft \o <<Dash, "en", Dash, "US", Dash, "Guy">>
Hello == <<"Hello">>

Req(action, engine, voice_iso_code, voice, text, combo) ==
    [action |-> action, engine |-> engine, voice_iso_code |-> voice_iso_code,
     voice |-> voice, text |-> text, engine_voice_combo |-> combo]

\* request.get(field) of a field the request does not carry is None
ListEnginesRequests == {Req(<<"list_engines">>, None, None, None, None, None)}
ListVoicesRequests ==
    {Req(<<"list_voices">>, e, None, None, None, None) :
        e \in {Microsoft, Missing, None}}
SetVoiceRequests ==
    {Req(<<"set_voice">>, Microsoft, Jenny, None, None, None),
     Req(<<"set_voice">>, Microsoft, MicrosoftJenny, None, None, None),
     Req(<<"set_voice">>, Microsoft, MicrosoftGuy, None, None, None),
     Req(<<"set_voice">>, Missing, MicrosoftJenny, None, None, None),
     Req(<<"set_voice">>, Microsoft, <<"Jenny">>, None, None, None),
     Req(<<"set_voice">>, Microsoft, None, None, None, None),
     Req(<<"set_voice">>, None, None, None, None, MicrosoftJenny)}
SpeakRequests ==
    {Req(<<"speak">>, e, None, v, Hello, None) :
        e \in {Microsoft, Missing, None}, v \in {None, Jenny}}
    \cup {Req(<<"speak">>, Microsoft, None, None, None, None)}
UnknownRequests ==
    {Req(<<"speak_text">>, Microsoft, None, None, Hello, None),
     Req(None, None, None, None, None, None)}

NoRequest == Req(<<"?">>, None, None, None, None, None)

\* what the backend's get_voices() does during a request
SmallVoices == [count |-> 2, bytes |-> 300]
LargeVoices == [count |-> 900, bytes |-> 2 * chunk_size + 100]
GetVoicesResults ==
    {[kind |-> "raise", message |-> "boom", voices |-> [count |-> 0, bytes |-> 0]],
     [kind |-> "none", message |-> "", voices |-> [count |-> 0, bytes |-> 0]],
     [kind |-> "list", message |-> "", voices |-> [count |-> 0, bytes |-> 2]],
     [kind |-> "list", message |-> "", voices |-> SmallVoices],
     [kind |-> "list", message |-> "", voices |-> LargeVoices]}
NoGetVoices == [kind |-> "unused", message |-> "", voices |-> [count |-> 0, bytes |-> 0]]

\* what the backend's set_voice() and speak_streamed() do during a request
SpeakBehaviours ==
    {[setRaises |-> TRUE, chunks |-> <<>>, genRaises |-> FALSE],
     [setRaises |-> FALSE, chunks |-> <<>>, genRaises |-> FALSE],
     [setRaises |-> FALSE, chunks |-> <<"a1", "a2">>, genRaises |-> FALSE],
     [setRaises |-> FALSE, chunks |-> <<"a1">>, genRaises |-> TRUE]}
NoSpeak == [setRaises |-> FALSE, chunks |-> <<>>, genRaises |-> FALSE]

\* the registry call of register_sapi_engine (1..6) and of register_voice
\* (1..20) that raises OSError, 0 for none
SapiFaults == {0, 1, 4}
VoiceFaults == {0, 1, 6, 11}
\* the WriteFile call of the connection that raises, 0 for none
MaxWriteFault == 3

\* how many set_voice requests one run of the model handles
MaxSetVoice == 2

\* (sections of settings.cfg, engines whose initialisation raises)
AllConfigurations ==
    {<<secs, bad>> : secs \in SUBSET Range(EngineOrder), bad \in SUBSET Range(EngineOrder)}
Configurations ==
    {<<Range(EngineOrder), {}>>,
     <<Range(EngineOrder), {Microsoft, Polly}>>,
     <<{Google, Microsoft}, {Google}>>,
     <<{}, {}>>}

Env(wfail, open, sapi, voice, gv, sp) ==
    [wfail |-> wfail, openDenied |-> open, sapiFail |-> sapi,
     voiceFail |-> voice, gv |-> gv, sp |-> sp]
NoEnv == Env(0, FALSE, 0, 0, NoGetVoices, NoSpeak)

(***************************************************************************)
(* Encodings of a request on the wire                                      *)
(***************************************************************************)
\* json.dumps(request).encode(): the UTF-8 bytes of the JSON text
encode(request) == [enc |-> "utf8", request |-> request]

\* zlib.compress(bytes): a zlib stream (header 0x78 0x9c) holding the bytes
zlib_compress(bytes) == [enc |-> "zlib", request |-> bytes.request]

\* data.decode() followed by json.loads: the bytes of a zlib stream are not
\* UTF-8 text, and decode raises UnicodeDecodeError
decode(bytes) ==
    IF bytes.enc = "utf8"
    THEN [raised |-> FALSE, request |-> bytes.request]
    ELSE [raised |-> TRUE, request |-> NoRequest]

NoWire == [enc |-> "none", request |-> NoRequest]

\* send_pipe_request returned None
NoResult == [returned |-> "None"]

(***************************************************************************)
(* State                                                                   *)
(***************************************************************************)
VARIABLES
    sections,   \* the sections present in settings.cfg
    failed,     \* the engines whose client, TTS object or probe raises
    engines,    \* self.engines / self.available_engines: names, in dict order
    store,      \* the registry, per view
    active,     \* the voice each backend was last told to use
    pc,         \* where run() is: "init", "create", "connect", "read", "finally"
    pipe,       \* the handle of this iteration: "none", "open", "closed"
    msg,        \* what ReadFile returned on this connection
    req,        \* the request json.loads produced on this connection
    env,        \* what the environment did on this connection
    written,    \* the WriteFile calls that succeeded on this connection
    raised,     \* whether an exception reached run()'s except clause
    prev,       \* the voice_iso_code of the previous connection when it was
                \* a set_voice that met no failure and was answered with
                \* success, else None
    nset,       \* the number of set_voice requests handled so far
    data,       \* the value send_large_data was called with
    tosend,     \* the writes send_large_data has still to make
    inflight,   \* the writes the pipe holds and the client has not read
    cpc,        \* where the client is: "idle", "read", "done"
    compressed_response,    \* the bytes the client's loop has accumulated
    response_data,          \* what receive_and_decompress returned
    crequest,   \* the request the client passed to send_pipe_request
    wire,       \* the bytes the client wrote that the server has not read
    result      \* what send_pipe_request returned

exchangeVars == <<crequest, wire, result>>

clientVars == <<data, tosend, inflight, cpc, compressed_response, response_data,
                exchangeVars>>

vars == <<sections, failed, engines, store, active, pc, pipe, msg, req, env,
          written, raised, prev, nset, clientVars>>

\* PipeServerThread.__init__ and an untouched registry
Init ==
    /\ sections = {}
    /\ failed = {}
    /\ engines = None
    /\ store = [v \in Range(Views) |-> EmptyRegistry]
    /\ active = [e \in {} |-> None]
    /\ pc = "init"
    /\ pipe = "none"
    /\ msg = "none"
    /\ req = NoRequest
    /\ env = NoEnv
    /\ written = <<>>
    /\ raised = FALSE
    /\ prev = None
    /\ nset = 0
    /\ data = NoDoc
    /\ tosend = <<>>
    /\ inflight = <<>>
    /\ cpc = "idle"
    /\ compressed_response = <<>>
    /\ response_data = None
    /\ crequest = NoRequest
    /\ wire = NoWire
    /\ result = NoResult

\* PipeServerThread.init_engines(config_path), then start()
InitEngines(configurations) ==
    /\ pc = "init"
    /\ \E c \in configurations :
        /\ sections' = c[1]
        /\ failed' = c[2]
        /\ engines' = init_engines(load_config(c[1]), c[2])
        /\ active' = [e \in Range(init_engines(load_config(c[1]), c[2])) |-> None]
    /\ pc' = "create"
    /\ UNCHANGED <<store, pipe, msg, req, env, written, raised, prev, nset,
                   clientVars>>

\* top of the while loop: pipe = None, then CreateNamedPipe, which returns
\* a handle or raises
CreateNamedPipe ==
    /\ pc = "create"
    /\ \/ pipe' = "open" /\ pc' = "connect" /\ raised' = FALSE
       \/ pipe' = "none" /\ pc' = "finally" /\ raised' = TRUE
    /\ UNCHANGED <<sections, failed, engines, store, active, msg, req, env,
                   written, prev, nset, clientVars>>

\* ConnectNamedPipe: returns when a client has connected, or raises
ConnectNamedPipe ==
    /\ pc = "connect"
    /\ \/ pc' = "read" /\ raised' = FALSE
       \/ pc' = "finally" /\ raised' = TRUE
    /\ UNCHANGED <<sections, failed, engines, store, active, pipe, msg, req,
                   env, written, prev, nset, clientVars>>

\* as Done, but a backend that raised is dropped from the registry
Done_evicts(m, r, e, w, exc, st, act, p) ==
    /\ pc' = "finally"
    /\ msg' = m
    /\ req' = r
    /\ env' = e
    /\ written' = w
    /\ raised' = exc
    /\ store' = st
    /\ active' = act
    /\ prev' = p
    /\ nset' = IF r.action = <<"set_voice">> THEN nset + 1 ELSE nset
    /\ engines' = IF exc \/ e.gv.kind = "raise"
                  THEN SelectSeq(engines, LAMBDA x : x # r.engine)
                  ELSE engines
    /\ UNCHANGED <<sections, failed, pipe, clientVars>>

\* as Done, but after a request that got no answer the server reads the
\* connection again
Done_rereads(m, r, e, w, exc, st, act, p) ==
    /\ pc' = IF w = <<>> /\ ~exc THEN "read" ELSE "finally"
    /\ msg' = m
    /\ req' = r
    /\ env' = e
    /\ written' = w
    /\ raised' = exc
    /\ store' = st
    /\ active' = act
    /\ prev' = p
    /\ nset' = IF r.action = <<"set_voice">> THEN nset + 1 ELSE nset
    /\ UNCHANGED <<sections, failed, engines, pipe, clientVars>>

\* the end of one pass through the try block: everything the handler did
\* to the server's state
Pass(m, r, e, w, exc, st, act, p) ==
    /\ pc' = "finally"
    /\ msg' = m
    /\ req' = r
    /\ env' = e
    /\ written' = w
    /\ raised' = exc
    /\ store' = st
    /\ active' = act
    /\ prev' = p
    /\ nset' = IF r.action = <<"set_voice">> THEN nset + 1 ELSE nset
    /\ UNCHANGED <<sections, failed, engines, pipe>>

\* one pass of the server with no client of the model involved
Done(m, r, e, w, exc, st, act, p) ==
    /\ Pass(m, r, e, w, exc, st, act, p)
    /\ UNCHANGED clientVars

\* ReadFile raises (the client went away), or returns ERROR_MORE_DATA for a
\* message longer than the 64 KiB buffer: `if result == 0` is skipped.
ReadFails ==
    /\ pc = "read"
    /\ \E m \in {"raise", "more_data"} :
        Done(m, NoRequest, NoEnv, <<>>, m = "raise", store, active, None)

\* data.decode() or json.loads(message) raises (zlib-compressed bytes, text
\* that is not JSON), or request.get raises (a JSON array)
Undecodable ==
    /\ pc = "read"
    /\ \E m \in {"zlib", "nonjson", "array"} :
        Done(m, NoRequest, NoEnv, <<>>, TRUE, store, active, None)

Outcome(w, exc, st, act) ==
    [written |-> w, raised |-> exc, store |-> st, active |-> act]

\* as set_voice_branch, but with register_voice called before the adapter
\* check
set_voice_branch_voiceFirst(r, e, st, act) ==
    LET rv == register_voice(st, r.voice_iso_code, e.voiceFail)
        st1 == IF ~is_engine_registered(rv.store)
               THEN register_sapi_engine(rv.store, engine_dll, e.sapiFail).store
               ELSE rv.store
        response == [status |-> IF rv.ret = "True" THEN "success" ELSE "failure"]
        w == TryWrites(<<WholeFrame(response)>>, e.wfail)
    IN  IF rv.raised THEN Outcome(<<>>, TRUE, rv.store, act)
        ELSE IF e.openDenied THEN Outcome(<<>>, TRUE, rv.store, act)
        ELSE Outcome(w.written, w.raised, st1, act)

\* the set_voice branch of run(): adapter check, adapter registration when
\* absent, register_voice, then one write of {"status": ...}
set_voice_branch(r, e, st, act) ==
    IF e.openDenied THEN Outcome(<<>>, TRUE, st, act)
    ELSE LET st1 == IF ~is_engine_registered(st)
                    THEN register_sapi_engine(st, engine_dll, e.sapiFail).store
                    ELSE st
             rv == register_voice(st1, r.voice_iso_code, e.voiceFail)
             response == [status |-> IF rv.ret = "True" THEN "success" ELSE "failure"]
             w == TryWrites(<<WholeFrame(response)>>, e.wfail)
         IN  IF rv.raised THEN Outcome(<<>>, TRUE, rv.store, act)
             ELSE Outcome(w.written, w.raised, rv.store, act)

\* as Dispatch, but a request with an unknown action is answered with an
\* error Response
Dispatch_rejects(r, e, st, act, engs) ==
    IF r.action = <<"list_engines">>
    THEN LET w == TryWrites(<<WholeFrame([engines |-> engs])>>, e.wfail)
         IN  Outcome(w.written, w.raised, st, act)
    ELSE IF r.action = <<"list_voices">>
    THEN IF r.engine \in Range(engs)
         THEN Outcome(fetch_voices(e.gv, e.wfail), FALSE, st, act)
         ELSE Outcome(<<>>, FALSE, st, act)
    ELSE IF r.action = <<"set_voice">>
    THEN set_voice_branch(r, e, st, act)
    ELSE IF r.action = <<"speak">>
    THEN IF r.engine \in Range(engs)
         THEN IF r.text = None
              THEN Outcome(<<>>, TRUE, st, act)
              ELSE LET o == speak_text_streamed(e.sp, r.voice, act[r.engine], e.wfail)
                   IN  Outcome(o.written, o.raised, st,
                               [act EXCEPT ![r.engine] = o.active])
         ELSE Outcome(<<>>, FALSE, st, act)
    ELSE Outcome(<<WholeFrame([status |-> "error", message |-> "Unknown action"])>>,
                 FALSE, st, act)

\* as Dispatch, but speak registers the voice it is given
Dispatch_speakRegisters(r, e, st, act, engs) ==
    IF r.action = <<"list_engines">>
    THEN LET w == TryWrites(<<WholeFrame([engines |-> engs])>>, e.wfail)
         IN  Outcome(w.written, w.raised, st, act)
    ELSE IF r.action = <<"list_voices">>
    THEN IF r.engine \in Range(engs)
         THEN Outcome(fetch_voices(e.gv, e.wfail), FALSE, st, act)
         ELSE Outcome(<<>>, FALSE, st, act)
    ELSE IF r.action = <<"set_voice">>
    THEN set_voice_branch(r, e, st, act)
    ELSE IF r.action = <<"speak">>
    THEN IF r.engine \in Range(engs)
         THEN IF r.text = None
              THEN Outcome(<<>>, TRUE, st, act)
              ELSE LET o == speak_text_streamed(e.sp, r.voice, act[r.engine], e.wfail)
                   IN  Outcome(o.written, o.raised,
                               IF r.voice = None THEN st
                               ELSE register_voice(st, r.engine \o <<Dash>> \o r.voice, 0).store,
                               [act EXCEPT ![r.engine] = o.active])
         ELSE Outcome(<<>>, FALSE, st, act)
    ELSE Outcome(<<>>, FALSE, st, act)

\* the `if request.get('action') == ...` chain of run()
Dispatch(r, e, st, act, engs) ==
    IF r.action = <<"list_engines">>
    THEN LET w == TryWrites(<<WholeFrame([engines |-> engs])>>, e.wfail)
         IN  Outcome(w.written, w.raised, st, act)
    ELSE IF r.action = <<"list_voices">>
    THEN IF r.engine \in Range(engs)
         THEN Outcome(fetch_voices(e.gv, e.wfail), FALSE, st, act)
         ELSE Outcome(<<>>, FALSE, st, act)
    ELSE IF r.action = <<"set_voice">>
    THEN set_voice_branch(r, e, st, act)
    ELSE IF r.action = <<"speak">>
    THEN IF r.engine \in Range(engs)
         THEN IF r.text = None
              THEN Outcome(<<>>, TRUE, st, act)
              ELSE LET o == speak_text_streamed(e.sp, r.voice, act[r.engine], e.wfail)
                   IN  Outcome(o.written, o.raised, st,
                               [act EXCEPT ![r.engine] = o.active])
         ELSE Outcome(<<>>, FALSE, st, act)
    ELSE Outcome(<<>>, FALSE, st, act)

\* the status of the single JSON response of a connection, "" when there is
\* none
AnsweredStatus(w) ==
    IF Len(w) = 1 /\ w[1].kind = "json" /\ "status" \in DOMAIN w[1].doc
    THEN w[1].doc.status ELSE ""

Handle(r, e) ==
    LET o == Dispatch(r, e, store, active, engines)
    IN  Done("json", r, e, o.written, o.raised, o.store, o.active,
             IF /\ r.action = <<"set_voice">>
                /\ e = NoEnv
                /\ AnsweredStatus(o.written) = "success"
             THEN r.voice_iso_code ELSE None)

HandleListEngines ==
    /\ pc = "read"
    /\ \E r \in ListEnginesRequests : \E wf \in 0..1 :
        Handle(r, Env(wf, FALSE, 0, 0, NoGetVoices, NoSpeak))

HandleListVoices ==
    /\ pc = "read"
    /\ \E r \in ListVoicesRequests :
        IF r.engine \in Range(engines)
        THEN \E gv \in GetVoicesResults :
             \E wf \in 0..Min(MaxWriteFault, Len(Chunks(fetch_voices_doc(gv), 0)) + 1) :
                Handle(r, Env(wf, FALSE, 0, 0, gv, NoSpeak))
        ELSE Handle(r, NoEnv)

HandleSetVoice ==
    /\ pc = "read"
    /\ nset < MaxSetVoice
    /\ \E r \in SetVoiceRequests :
        \/ Handle(r, Env(0, TRUE, 0, 0, NoGetVoices, NoSpeak))
        \/ \E sf \in IF is_engine_registered(store) THEN {0} ELSE SapiFaults :
           \E vf \in IF register_voice(store, r.voice_iso_code, 0).raised
                     THEN {0} ELSE VoiceFaults :
           \E wf \in IF register_voice(store, r.voice_iso_code, 0).raised
                     THEN {0} ELSE 0..1 :
                Handle(r, Env(wf, FALSE, sf, vf, NoGetVoices, NoSpeak))

HandleSpeak ==
    /\ pc = "read"
    /\ \E r \in SpeakRequests :
        IF r.engine \in Range(engines) /\ r.text # None
        THEN \E sp \in SpeakBehaviours :
             \E wf \in 0..Min(MaxWriteFault, Len(sp.chunks)) :
                Handle(r, Env(wf, FALSE, 0, 0, NoGetVoices, sp))
        ELSE Handle(r, NoEnv)

HandleUnknown ==
    /\ pc = "read"
    /\ \E r \in UnknownRequests : Handle(r, NoEnv)

\* as Finally, but an exception that reached the except clause ends the loop
Finally_stops ==
    /\ pc = "finally"
    /\ pipe' = IF pipe = "open" THEN "closed" ELSE "none"
    /\ pc' = IF raised THEN "stopped" ELSE "create"
    /\ msg' = "none"
    /\ req' = NoRequest
    /\ env' = NoEnv
    /\ written' = <<>>
    /\ raised' = FALSE
    /\ UNCHANGED <<sections, failed, engines, store, active, prev, nset,
                   clientVars>>

\* finally: `if pipe: CloseHandle(pipe)`, then the loop starts over with
\* pipe = None; what the closed connection carried is dropped
Finally ==
    /\ pc = "finally"
    /\ pipe' = IF pipe = "open" THEN "closed" ELSE "none"
    /\ pc' = "create"
    /\ msg' = "none"
    /\ req' = NoRequest
    /\ env' = NoEnv
    /\ written' = <<>>
    /\ raised' = FALSE
    /\ UNCHANGED <<sections, failed, engines, store, active, prev, nset,
                   clientVars>>

Next ==
    \/ InitEngines(Configurations)
    \/ CreateNamedPipe
    \/ ConnectNamedPipe
    \/ ReadFails
    \/ Undecodable
    \/ HandleListEngines
    \/ HandleListVoices
    \/ HandleSetVoice
    \/ HandleSpeak
    \/ HandleUnknown
    \/ Finally

Spec == Init /\ [][Next]_vars

\* the server under every configuration and probe outcome, with clients
\* that ask for the engine list
NextEngines ==
    \/ InitEngines(AllConfigurations)
    \/ CreateNamedPipe
    \/ ConnectNamedPipe
    \/ ReadFails
    \/ HandleListEngines
    \/ Finally

SpecEngines == Init /\ [][NextEngines]_vars

(***************************************************************************)
(* The transfer of one send_large_data response to the registration        *)
(* client's receive_and_decompress, write by write and read by read        *)
(***************************************************************************)
ReadSize == 64 * 1024

\* a JSON value whose text is n bytes long
Payload(n) == [size |-> n]
PayloadSizes == {0, 1, chunk_size - 1, chunk_size, chunk_size + 1, 10 * chunk_size}

\* the bytes of a document as one piece (none for an empty text)
BytesOf(doc) == IF JsonLen(doc) = 0 THEN <<>> ELSE <<WholeFrame(doc)>>

FrameLen(f) == f.hi - f.lo

RECURSIVE ChunkLen(_)
ChunkLen(pieces) ==
    IF pieces = <<>> THEN 0 ELSE FrameLen(Head(pieces)) + ChunkLen(Tail(pieces))

\* the first n bytes of the queued writes q, and what stays queued
RECURSIVE Take(_, _)
Take(q, n) ==
    IF q = <<>> THEN [got |-> <<>>, rest |-> <<>>]
    ELSE IF FrameLen(Head(q)) <= n
    THEN LET t == Take(Tail(q), n - FrameLen(Head(q)))
         IN  [got |-> <<Head(q)>> \o t.got, rest |-> t.rest]
    ELSE IF n = 0 THEN [got |-> <<>>, rest |-> q]
    ELSE [got |-> <<Frame(Head(q).doc, Head(q).lo, Head(q).lo + n)>>,
          rest |-> <<Frame(Head(q).doc, Head(q).lo + n, Head(q).hi)>> \o Tail(q)]

\* compressed_response += chunk: the bytes lo..mid followed by the bytes
\* mid..hi of a text are its bytes lo..hi
RECURSIVE Join(_, _)
Join(acc, pieces) ==
    IF pieces = <<>> THEN acc
    ELSE LET f == Head(pieces)
         IN  Join(IF FrameLen(f) = 0 THEN acc
                  ELSE IF /\ acc # <<>>
                          /\ acc[Len(acc)].doc = f.doc
                          /\ acc[Len(acc)].hi = f.lo
                  THEN [acc EXCEPT ![Len(acc)].hi = f.hi]
                  ELSE Append(acc, f),
                  Tail(pieces))

\* decompress_response: zlib.decompress with header detection; bytes that
\* are not a zlib or gzip stream raise zlib.error and give None, and
\* receive_and_decompress turns an empty result into None as well
decompress_response(bytes) ==
    IF bytes # <<>> /\ \A i \in DOMAIN bytes : bytes[i].kind = "zlib"
    THEN bytes ELSE None

\* a connected client has sent its request and the server is about to call
\* send_large_data
TransferInit ==
    /\ sections = {Microsoft}
    /\ failed = {}
    /\ engines = <<Microsoft>>
    /\ store = [v \in Range(Views) |-> EmptyRegistry]
    /\ active = [e \in {Microsoft} |-> None]
    /\ pc = "read"
    /\ pipe = "open"
    /\ msg = "json"
    /\ req = Req(<<"list_voices">>, Microsoft, None, None, None, None)
    /\ env = NoEnv
    /\ written = <<>>
    /\ raised = FALSE
    /\ prev = None
    /\ nset = 0
    /\ data = NoDoc
    /\ tosend = <<>>
    /\ inflight = <<>>
    /\ cpc = "idle"
    /\ compressed_response = <<>>
    /\ response_data = None
    /\ crequest = NoRequest
    /\ wire = NoWire
    /\ result = NoResult

serverVars == <<sections, failed, engines, store, active, pc, pipe, msg, req,
                env, raised, prev, nset>>

\* send_large_data(pipe, data) is entered: json.dumps(data).encode() is cut
\* into chunks; the client is in receive_and_decompress
EnterSendLargeData ==
    /\ cpc = "idle"
    /\ \E n \in PayloadSizes :
        /\ data' = Payload(n)
        /\ tosend' = Chunks(Payload(n), 0) \o <<EmptyFrame>>
    /\ cpc' = "read"
    /\ UNCHANGED <<serverVars, written, inflight, compressed_response, response_data,
                   exchangeVars>>

\* one WriteFile of send_large_data; once the client has returned and its
\* handle is gone the write raises, which ends send_large_data
WriteFile ==
    /\ tosend # <<>>
    /\ IF cpc = "done"
       THEN tosend' = <<>> /\ UNCHANGED <<written, inflight>>
       ELSE /\ tosend' = Tail(tosend)
            /\ written' = Append(written, Head(tosend))
            /\ inflight' = Append(inflight, Head(tosend))
    /\ UNCHANGED <<serverVars, data, cpc, compressed_response, response_data,
                   exchangeVars>>

\* one pass of the loop of receive_and_decompress: ReadFile(pipe, 64 KiB)
\* returns bytes of the writes that have arrived (the first of them, or
\* more when the handle reads a byte stream), at most 64 KiB; a chunk
\* shorter than 64 KiB ends the loop, and the function decompresses and
\* returns
ClientReadFile ==
    /\ cpc = "read"
    /\ inflight # <<>>
    /\ \E k \in 1..Len(inflight) :
        LET t == Take(SubSeq(inflight, 1, k), ReadSize)
            all == Join(compressed_response, t.got)
        IN  /\ inflight' = t.rest \o SubSeq(inflight, k + 1, Len(inflight))
            /\ compressed_response' = all
            /\ IF ChunkLen(t.got) < ReadSize
               THEN cpc' = "done" /\ response_data' = decompress_response(all)
               ELSE UNCHANGED <<cpc, response_data>>
    /\ UNCHANGED <<serverVars, written, data, tosend, exchangeVars>>

NextTransfer ==
    \/ EnterSendLargeData
    \/ WriteFile
    \/ ClientReadFile

SpecTransfer == TransferInit /\ [][NextTransfer]_vars

(***************************************************************************)
(* One exchange of the registration client (send_pipe_request) with the    *)
(* running server                                                          *)
(***************************************************************************)
\* the requests load_engines, load_voices and register_selected_voices build
ClientRequests ==
    ListEnginesRequests
    \cup {Req(<<"list_voices">>, e, None, None, None, None) : e \in Range(EngineOrder)}
    \cup {Req(<<"set_voice">>, None, None, None, None, c) :
            c \in {MicrosoftJenny, MicrosoftGuy}}

\* the Response document among the writes w, NoDoc when there is none
Built(w) == IF Docs(w) = {} THEN NoDoc ELSE CHOOSE d \in Docs(w) : TRUE

\* send_pipe_request(request) up to its WriteFile: CreateFile connects, so
\* the server's ConnectNamedPipe returns, and the compressed request is
\* written
ExchangeConnect ==
    /\ pc = "connect"
    /\ cpc = "idle"
    /\ \E r \in ClientRequests :
        /\ crequest' = r
        /\ wire' = zlib_compress(encode(r))
    /\ pc' = "read"
    /\ raised' = FALSE
    /\ cpc' = "read"
    /\ UNCHANGED <<sections, failed, engines, store, active, pipe, msg, req,
                   env, written, prev, nset, data, tosend, inflight,
                   compressed_response, response_data, result>>

\* the server's pass for the message the client wrote: ReadFile, decode,
\* json.loads, dispatch; what it writes is there for the client to read
ExchangeHandle ==
    /\ pc = "read"
    /\ wire # NoWire
    /\ LET d == decode(wire)
           o == IF d.raised
                THEN Outcome(<<>>, TRUE, store, active)
                ELSE Dispatch(d.request, NoEnv, store, active, engines)
       IN  /\ Pass(IF d.raised THEN "zlib" ELSE "json", d.request, NoEnv,
                   o.written, o.raised, o.store, o.active, None)
           /\ inflight' = o.written
           /\ data' = Built(o.written)
    /\ wire' = NoWire
    /\ UNCHANGED <<tosend, cpc, compressed_response, response_data, crequest, result>>

\* the server has handled the client's message and closed its handle
ConnectionClosed ==
    /\ wire = NoWire
    /\ pc # "read"
    /\ ~(pc = "finally" /\ pipe = "open")

\* the first ReadFile of receive_and_decompress on a connection the server
\* closed without writing: it raises, and send_pipe_request's except
\* clause returns None
ReadFileBroken ==
    /\ cpc = "read"
    /\ inflight = <<>>
    /\ ConnectionClosed
    /\ cpc' = "returned"
    /\ result' = NoResult
    /\ UNCHANGED <<serverVars, written, data, tosend, inflight,
                   compressed_response, response_data, crequest, wire>>

NextExchange ==
    \/ InitEngines(Configurations)
    \/ CreateNamedPipe
    \/ ExchangeConnect
    \/ ExchangeHandle
    \/ Finally
    \/ ReadFileBroken

SpecExchange == Init /\ [][NextExchange]_vars

(***************************************************************************)
(* Properties                                                              *)
(***************************************************************************)
IsErrorResponse(d) ==
    /\ "status" \in DOMAIN d
    /\ d.status = "error"
    /\ "message" \in DOMAIN d

\* the request of this connection was decoded and its handling has ended
Handled(action) == pc = "finally" /\ msg = "json" /\ req.action = action

NoFault ==
    /\ env.wfail = 0
    /\ ~env.openDenied
    /\ env.sapiFail = 0
    /\ env.voiceFail = 0

\* C1: a list_voices or speak request naming a backend that is not in the
\* registry (or naming none) is answered with exactly one error Response
\* carrying a message before the connection is closed.
C1_MissingBackendGetsError ==
    (/\ Handled(<<"list_voices">>) \/ Handled(<<"speak">>)
     /\ req.engine \notin Range(engines))
    => \E d \in Docs(written) : Docs(written) = {d} /\ IsErrorResponse(d)

Position(seq, x) == CHOOSE i \in DOMAIN seq : seq[i] = x

\* list holds exactly the configured engines whose initialisation succeeded,
\* each once, in the order of the configuration map
AvailableInOrder(list) ==
    /\ Range(list) = sections \ failed
    /\ Len(list) = Cardinality(sections \ failed)
    /\ \A i, j \in DOMAIN list :
        i < j => Position(load_config(sections), list[i])
                 < Position(load_config(sections), list[j])

C2_State ==
    /\ pc # "init" => AvailableInOrder(engines)
    /\ (Handled(<<"list_engines">>) /\ env.wfail = 0)
        => /\ Len(written) = 1
           /\ written[1] = WholeFrame(written[1].doc)
           /\ DOMAIN written[1].doc = {"engines"}
           /\ AvailableInOrder(written[1].doc.engines)
           /\ ~raised

C3_SetVoiceAlwaysAnswered ==
    (Handled(<<"set_voice">>) /\ NoFault)
    => /\ Len(written) = 1
       /\ AnsweredStatus(written) \in {"success", "failure", "error"}

\* a key of the store that holds a voice record, and the (backend, voice)
\* pair the record is for
IsRecord(values) == {"Name", "Vendor"} \subseteq DOMAIN values

\* the request carries a voice_iso_code that holds a "-"
HasSplittableVoice == req.voice_iso_code # None /\ Dash \in Range(req.voice_iso_code)

\* C4: a set_voice request naming a backend that is absent from the
\* registry is answered with an error Response and writes no record: once
\* it is handled, every persisted record still belongs to a backend that is
\* in the registry.  (Stated for requests whose voice id holds a "-"; the
\* others are the subject of C3.)
C4_AbsentBackendNotRegistered ==
    (/\ Handled(<<"set_voice">>)
     /\ NoFault
     /\ HasSplittableVoice
     /\ req.engine # None
     /\ req.engine \notin Range(engines))
    => /\ \E d \in Docs(written) : Docs(written) = {d} /\ IsErrorResponse(d)
       /\ \A v \in Range(Views) : \A k \in DOMAIN store[v] :
            IsRecord(store[v][k]) => store[v][k]["Vendor"] \in Range(engines)

\* the record of voice V of backend E is in view v of the store
HasRecord(v, E, V) ==
    /\ TokenKey(E) \in DOMAIN store[v]
    /\ IsRecord(store[v][TokenKey(E)])
    /\ store[v][TokenKey(E)]["Vendor"] = E
    /\ store[v][TokenKey(E)]["Name"] = V

\* C5: set_voice with engine = E and voice_iso_code = V is answered with
\* success and persists the record with backend E and voice V.  (Stated
\* for voice ids that hold a "-", such as en-US-Jenny.)
C5_RecordKeyedByEngineAndVoice ==
    (/\ Handled(<<"set_voice">>)
     /\ NoFault
     /\ req.engine # None
     /\ HasSplittableVoice)
    => /\ AnsweredStatus(written) = "success"
       /\ \A v \in Range(Views) : HasRecord(v, req.engine, req.voice_iso_code)

\* a request was handled in this step and answered with this status
Answers(action, status) ==
    /\ pc = "read"
    /\ pc' = "finally"
    /\ req'.action = action
    /\ AnsweredStatus(written') = status

\* C6: a successful set_voice leaves the record of every (backend, voice)
\* pair registered earlier in the store: a second voice of a backend does
\* not remove or replace the record of the first.
C6_RecordsOfOtherVoicesKept ==
    [][Answers(<<"set_voice">>, "success")
        => \A v \in Range(Views) : \A k \in DOMAIN store[v] :
            IsRecord(store[v][k])
            => /\ k \in DOMAIN store'[v]
               /\ IsRecord(store'[v][k])
               /\ store'[v][k]["Vendor"] = store[v][k]["Vendor"]
               /\ store'[v][k]["Name"] = store[v][k]["Name"]]_vars

\* C7: registration is idempotent.  A set_voice request that repeats the
\* previous connection's successful request and meets no failure is
\* answered with success and leaves the store exactly as the first left
\* it; registering the adapter on top of a complete adapter registration
\* succeeds and changes nothing.
C7_RegistrationIdempotent ==
    [][/\ (/\ pc = "read"
           /\ pc' = "finally"
           /\ req'.action = <<"set_voice">>
           /\ prev # None
           /\ req'.voice_iso_code = prev
           /\ env' = NoEnv)
          => (store' = store /\ AnsweredStatus(written') = "success")
       /\ LET once == register_sapi_engine(store', engine_dll, 0)
              twice == register_sapi_engine(once.store, engine_dll, 0)
          IN  twice.ret /\ twice.store = once.store]_vars

C7_Witness ==
    /\ Handled(<<"set_voice">>)
    /\ env = NoEnv
    /\ nset = 2
    /\ prev = MicrosoftJenny
    /\ req.voice_iso_code = MicrosoftJenny
    /\ AnsweredStatus(written) = "success"

Schema == {"Name", "Vendor", "Language", "Gender", "Age", "Path", "Module", "Class"}

\* the token key register_voice writes for the request of this connection
RequestKey ==
    TokenKey(SubSeq(req.voice_iso_code, 1, FirstDash(req.voice_iso_code) - 1))

\* C8: when set_voice is answered with success, the persisted record holds
\* every attribute of the schema, with non-empty placeholders for language,
\* gender and age, and is the same under the 64-bit and the 32-bit view.
C8_SuccessMeansFullRecord ==
    (Handled(<<"set_voice">>) /\ AnsweredStatus(written) = "success")
    => /\ \A v \in Range(Views) :
            /\ RequestKey \in DOMAIN store[v]
            /\ Schema \subseteq DOMAIN store[v][RequestKey]
            /\ \A a \in {"Language", "Gender", "Age"} : store[v][RequestKey][a] # <<>>
       /\ store[Views[1]][RequestKey] = store[Views[2]][RequestKey]

C8_Witness ==
    /\ Handled(<<"set_voice">>)
    /\ AnsweredStatus(written) = "success"
    /\ req.voice_iso_code = MicrosoftGuy
    /\ store[Views[2]][TokenKey(Microsoft)]["Gender"] = <<"Female">>

ZeroVoices(gv) == gv.kind = "none" \/ (gv.kind = "list" /\ gv.voices.count = 0)

\* C9: list_voices on an available backend that returns no voices is
\* answered with {"status": "error", "message": "No voices found"}; no
\* success Response with an empty voices list is ever written.
C9_NoVoicesIsAnError ==
    /\ (/\ Handled(<<"list_voices">>)
        /\ req.engine \in Range(engines)
        /\ ZeroVoices(env.gv))
        => /\ Docs(written) \subseteq {[status |-> "error", message |-> "No voices found"]}
           /\ env.wfail = 0
                => /\ Len(written) = 2
                   /\ written[1].doc = [status |-> "error", message |-> "No voices found"]
                   /\ written[1].lo = 0
                   /\ written[1].hi = JsonLen(written[1].doc)
                   /\ written[2] = EmptyFrame
    /\ \A d \in Docs(written) : "voices" \in DOMAIN d => d.voices.count > 0

C9_Witness ==
    /\ Handled(<<"list_voices">>)
    /\ req.engine = Microsoft
    /\ env.gv.kind = "list"
    /\ env.gv.voices.count = 0
    /\ Len(written) = 2
    /\ written[1].doc.message = "No voices found"

C10_State ==
    (/\ Handled(<<"list_voices">>)
     /\ req.engine \in Range(engines)
     /\ env.gv.kind = "raise"
     /\ env.wfail = 0)
    => /\ Len(written) = 2
       /\ written[1].doc = [status |-> "error", message |-> env.gv.message]
       /\ written[1].lo = 0
       /\ written[1].hi = JsonLen(written[1].doc)
       /\ written[2] = EmptyFrame
       /\ pipe = "open"

\* C10: when the backend's list_voices call raises, the server writes
\* exactly one error Response whose message is the backend's error text,
\* then closes the connection and goes on to the next one.
C10_BackendErrorReported ==
    [][/\ C10_State'
       /\ (Handled(<<"list_voices">>) /\ env.gv.kind = "raise")
            => (pipe' = "closed" /\ pc' = "create")]_vars

C10_Witness ==
    /\ Handled(<<"list_voices">>)
    /\ env.gv.kind = "raise"
    /\ env.wfail = 0
    /\ Len(written) = 2
    /\ written[1].doc.status = "error"
    /\ written[1].doc.message = "boom"

\* C11: when the client's receive loop has ended, the bytes it accumulated
\* from the writes of send_large_data are the bytes of the payload, for
\* payloads of 0, 1, chunk_size - 1, chunk_size, chunk_size + 1 and
\* 10 * chunk_size bytes.
C11_ChunkedTransferRoundTrips ==
    cpc = "done" => compressed_response = BytesOf(data)

\* C12: when a complete message was read and could not be decoded (bytes
\* that are not UTF-8 text, text that is not JSON, JSON that is not an
\* object), an error Response is written on the connection before it is
\* closed.
C12_UndecodableGetsError ==
    (pc = "finally" /\ msg \in {"zlib", "nonjson", "array"})
    => \E d \in Docs(written) : IsErrorResponse(d)

\* the connection that is about to be closed met a failure: a read that
\* failed, a message that could not be decoded, an exception of the
\* backend, a registry call or a write that raised
FailedConnection ==
    /\ pc = "finally"
    /\ pipe = "open"
    /\ \/ raised
       \/ msg # "json"
       \/ env.gv.kind = "raise"
       \/ env.sp.setRaises
       \/ env.sp.genRaises
       \/ ~NoFault

\* a request with a known action and the fields the server reads for it,
\* naming a backend that is available
WellFormedRequest ==
    \/ req.action = <<"list_engines">>
    \/ req.action = <<"list_voices">> /\ req.engine \in Range(engines)
    \/ req.action = <<"set_voice">> /\ HasSplittableVoice
    \/ req.action = <<"speak">> /\ req.engine \in Range(engines) /\ req.text # None

BackendWorks == env.gv.kind # "raise" /\ ~env.sp.setRaises /\ ~env.sp.genRaises

AnsweredNormally ==
    /\ ~raised
    /\ req.action = <<"list_engines">>
        => written = <<WholeFrame([engines |-> engines])>>
    /\ req.action = <<"list_voices">>
        => /\ Len(written) >= 2
           /\ written[Len(written)] = EmptyFrame
           /\ \E d \in Docs(written) :
                /\ Docs(written) = {d}
                /\ d.status \in {"success", "error"}
                /\ ChunkLen(written) = JsonLen(d)
    /\ req.action = <<"set_voice">>
        => Len(written) = 1 /\ AnsweredStatus(written) = "success"
    /\ req.action = <<"speak">>
        => written = [i \in 1..Len(env.sp.chunks) |-> AudioFrame(env.sp.chunks[i])]

\* C13: no failure of one connection stops the server.  A connection that
\* met a failure is closed by the next step, which takes the loop back to
\* creating the endpoint of the next connection, and that step is always
\* possible; and in every state, those after failed connections included, a
\* well-formed request that meets no failure itself is answered normally.
C13_FailureDoesNotStopServer ==
    [][/\ FailedConnection
            => (ENABLED Finally /\ pipe' = "closed" /\ pc' = "create")
       /\ pc = "create" => ENABLED CreateNamedPipe
       /\ (/\ pc' = "finally"
           /\ msg' = "json"
           /\ WellFormedRequest'
           /\ NoFault'
           /\ BackendWorks')
            => AnsweredNormally']_vars

\* a set_voice request answered normally after the adapter registration of
\* the connection before it failed part-way
C13_Witness ==
    /\ Handled(<<"set_voice">>)
    /\ NoFault
    /\ nset = 2
    /\ AnsweredStatus(written) = "success"
    /\ AdapterKey \in DOMAIN store[Views[1]]
    /\ AdapterKey \notin DOMAIN store[Views[2]]

\* C14: a set_voice request during which a write to the registry fails
\* (in the adapter registration or in the voice record, in either view) is
\* answered with a Response whose status is "failure".  (Stated for voice
\* ids that hold a "-" and for connections whose client stays to read.)
C14_StoreWriteFailureAnswered ==
    (/\ Handled(<<"set_voice">>)
     /\ HasSplittableVoice
     /\ env.wfail = 0
     /\ ~env.openDenied
     /\ (env.sapiFail # 0 \/ env.voiceFail # 0))
    => AnsweredStatus(written) = "failure"

\* C15: every JSON Response the server writes, for every action, is an
\* object with a status field whose value is success, failure or error.
C15_EveryResponseHasStatus ==
    \A d \in Docs(written) :
        "status" \in DOMAIN d /\ d.status \in {"success", "failure", "error"}

\* C16: a set_voice request that names the voice by the combined key
\* engine_voice_combo = "<engine>-<voice id>" is answered with success, and
\* the voice is registered under that engine and voice id in both views.
C16_ComboKeyRegisters ==
    (/\ Handled(<<"set_voice">>)
     /\ NoFault
     /\ req.engine_voice_combo # None)
    => LET combo == req.engine_voice_combo
           p == FirstDash(combo)
       IN  /\ AnsweredStatus(written) = "success"
           /\ \A v \in Range(Views) :
                HasRecord(v, SubSeq(combo, 1, p - 1), SubSeq(combo, p + 1, Len(combo)))

\* C17: for a speak request on an available backend that completes without
\* failure, the writes on the connection are exactly the audio chunks that
\* speak_streamed yielded, in order, one write per chunk: no JSON envelope
\* before them, no status record or terminator after them.
C17_SpeakWritesExactlyTheChunks ==
    (/\ Handled(<<"speak">>)
     /\ req.engine \in Range(engines)
     /\ req.text # None
     /\ ~raised)
    => /\ Len(written) = Len(env.sp.chunks)
       /\ \A i \in DOMAIN written : written[i] = AudioFrame(env.sp.chunks[i])
       /\ Docs(written) = {}

C17_Witness ==
    /\ Handled(<<"speak">>)
    /\ req.engine = Microsoft
    /\ ~raised
    /\ env.sp.chunks = <<"a1", "a2">>
    /\ written = <<AudioFrame("a1"), AudioFrame("a2")>>

\* C18: each connection is one-shot and strictly ordered.  A message is
\* read only from an open connection from which nothing was read yet, and
\* the same step ends the handling; writes happen only in that step, while
\* the connection is open; the step after it closes the connection; and a
\* new endpoint is created, and its message read, only when no connection
\* is open.
C18_OneShotOrdered ==
    [][/\ (msg' # "none" /\ (msg' # msg \/ req' # req \/ written' # written))
            => (pc = "read" /\ msg = "none" /\ pipe = "open" /\ pc' = "finally")
       /\ (written' # <<>> /\ written' # written)
            => (pc = "read" /\ written = <<>> /\ pipe = "open" /\ pipe' = "open")
       /\ pc = "finally"
            => (pc' = "create" /\ pipe' # "open" /\ (pipe = "open" => pipe' = "closed"))
       /\ pc' = "read"
            => (pc = "connect" /\ pipe' = "open" /\ msg' = "none" /\ written' = <<>>)
       /\ (pipe' = "open" /\ pipe # "open")
            => (pc = "create" /\ pipe \in {"none", "closed"})
       /\ pc \in {"connect", "read"} => pipe = "open"]_vars

\* the second set_voice connection answered: the connections before it
\* were closed before its message was read
C18_Witness ==
    /\ Handled(<<"set_voice">>)
    /\ nset = 2
    /\ pipe = "open"
    /\ written = <<WholeFrame([status |-> "failure"])>>

\* the adapter registration is in view v of the store
AdapterRegistered(v) ==
    /\ AdapterKey \in DOMAIN store[v]
    /\ {"", "ThreadingModel"} \subseteq DOMAIN store[v][AdapterKey]

\* C19: whenever a set_voice request is answered with status success, the
\* shared adapter registration exists under the 64-bit and the 32-bit
\* view, whatever state earlier requests left the store in.
C19_SuccessMeansAdapterRegistered ==
    (Handled(<<"set_voice">>) /\ AnsweredStatus(written) = "success")
    => \A v \in Range(Views) : AdapterRegistered(v)

\* a set_voice request was handled in this step
SetVoiceStep ==
    /\ pc = "read"
    /\ pc' = "finally"
    /\ msg' = "json"
    /\ req'.action = <<"set_voice">>

\* C20: in the handling of a set_voice request the adapter check, and the
\* adapter registration when the adapter is absent, come before the first
\* write of the voice record.  When the check itself raises, nothing is
\* written to the store; when the adapter is absent and register_voice
\* raises or fails at its first registry call, the adapter registration is
\* already complete in the store.
C20_AdapterCheckedBeforeVoiceWrite ==
    [][SetVoiceStep
        => /\ env'.openDenied => (store' = store /\ written' = <<>>)
           /\ (/\ ~env'.openDenied
               /\ ~is_engine_registered(store)
               /\ env'.sapiFail = 0
               /\ \/ register_voice(store, req'.voice_iso_code, 0).raised
                  \/ env'.voiceFail = 1)
                => store' = register_sapi_engine(store, engine_dll, 0).store]_vars

\* the adapter was registered by a request whose register_voice raised
\* before any registry call
C20_Witness ==
    /\ Handled(<<"set_voice">>)
    /\ req.voice_iso_code = <<"Jenny">>
    /\ raised
    /\ nset = 1
    /\ \A v \in Range(Views) :
        AdapterRegistered(v) /\ \A k \in DOMAIN store[v] : ~IsRecord(store[v][k])

\* C21: when the backend raises or a write fails during a speak stream,
\* the writes made on the connection are a prefix of the chunks the
\* backend yielded, no error frame (no JSON at all) is written, and the
\* next step closes the connection.
C21_SpeakFailureTruncates ==
    [][(Handled(<<"speak">>) /\ req.engine \in Range(engines) /\ raised)
        => /\ Len(written) <= Len(env.sp.chunks)
           /\ \A i \in DOMAIN written : written[i] = AudioFrame(env.sp.chunks[i])
           /\ Docs(written) = {}
           /\ pipe = "open"
           /\ pipe' = "closed"
           /\ pc' = "create"]_vars

\* the generator raised after its first chunk was written
C21_Witness ==
    /\ Handled(<<"speak">>)
    /\ raised
    /\ env.sp.genRaises
    /\ env.wfail = 0
    /\ written = <<AudioFrame("a1")>>

\* the second write failed after the first chunk was written
C21_WitnessWrite ==
    /\ Handled(<<"speak">>)
    /\ raised
    /\ env.wfail = 2
    /\ env.sp.chunks = <<"a1", "a2">>
    /\ written = <<AudioFrame("a1")>>

\* C22: a speak request that carries no voice field leaves the backend's
\* active voice as it was: the backend's set_voice is not invoked for it,
\* and the voice an earlier request chose stays in effect.
C22_SpeakWithoutVoiceKeepsVoice ==
    [][(/\ pc = "read"
        /\ pc' = "finally"
        /\ msg' = "json"
        /\ req'.action = <<"speak">>
        /\ req'.voice = None)
        => active' = active]_vars

KnownActions == {<<"list_engines">>, <<"list_voices">>, <<"set_voice">>, <<"speak">>}

\* C23: a request whose action is none of list_engines, list_voices,
\* set_voice, speak, or that has no action field, is silently ignored:
\* its handling writes nothing, raises nothing, calls no backend and leaves
\* the registration store unchanged, and the next step closes the
\* connection.
C23_UnknownActionIgnored ==
    [][/\ (/\ pc = "read"
           /\ pc' = "finally"
           /\ msg' = "json"
           /\ req'.action \notin KnownActions)
            => /\ written' = <<>>
               /\ ~raised'
               /\ store' = store
               /\ active' = active
       /\ (pc = "finally" /\ msg = "json" /\ req.action \notin KnownActions)
            => (pipe = "open" /\ pipe' = "closed" /\ pc' = "create")]_vars

\* a request with the action speak_text was handled on a server whose
\* store holds registrations
C23_Witness ==
    /\ Handled(<<"speak_text">>)
    /\ written = <<>>
    /\ ~raised
    /\ pipe = "open"
    /\ store[Views[1]] # EmptyRegistry

\* C24: the backend registry is read-only after initialisation.  No step
\* after init_engines changes the available backends or their order, and
\* every list_engines answer carries the list that init_engines built.
C24_RegistryReadOnly ==
    [][/\ pc # "init" => engines' = engines
       /\ pc' # "init" => engines' = init_engines(load_config(sections'), failed')
       /\ (/\ pc' = "finally"
           /\ msg' = "json"
           /\ req'.action = <<"list_engines">>
           /\ env'.wfail = 0)
            => written'[1].doc.engines = init_engines(load_config(sections'), failed')]_vars

\* list_engines answered with the list of startup, after two set_voice
\* requests, on a server whose Microsoft and Polly backends failed to start
C24_Witness ==
    /\ Handled(<<"list_engines">>)
    /\ env.wfail = 0
    /\ nset = 2
    /\ engines = <<Google, SherpaOnnx>>
    /\ written[1].doc.engines = <<Google, SherpaOnnx>>
    /\ store[Views[1]] # EmptyRegistry

\* C25: only set_voice changes the registration store.  A step that
\* handles a list_engines, list_voices, speak or unknown-action request, a
\* message that cannot be decoded or a failed read, and every step of the
\* loop outside the handling of a request, leaves the store as it was.
C25_OnlySetVoiceChangesStore ==
    [][~(/\ pc = "read"
         /\ msg' = "json"
         /\ req'.action = <<"set_voice">>)
        => store' = store]_vars

\* a speak request was handled, with its backend raising, on a store that
\* holds a voice record and the adapter registration
C25_Witness ==
    /\ Handled(<<"speak">>)
    /\ raised
    /\ \A v \in Range(Views) :
        AdapterRegistered(v) /\ HasRecord(v, Microsoft, Jenny)

\* C26: failure to create the listening endpoint is fatal.  When
\* CreateNamedPipe has failed (the loop is at its finally clause without a
\* handle), the server does not go back to the top of the loop for another
\* accept cycle.
C26_EndpointFailureIsFatal ==
    [][(pc = "finally" /\ pipe = "none" /\ raised) => pc' # "create"]_vars

\* C27: a request longer than one read is reassembled: when the first
\* ReadFile reports that more of the message is to come, the server reads
\* on, decodes the whole message into a request and dispatches it like a
\* small one.
C27_LargeRequestReassembled ==
    (pc = "finally" /\ msg = "more_data")
    => (req # NoRequest /\ req.action \in KnownActions)

\* C28: client and server agree on the framing.  For a request the
\* registration client sends with send_pipe_request, the server decodes
\* the Request the client encoded, and send_pipe_request returns the
\* Response the server built.
C28_FramingAgreement ==
    /\ (pc = "finally" /\ pipe = "open" /\ crequest # NoRequest)
        => (msg = "json" /\ req = crequest)
    /\ cpc = "returned" => (result # NoResult /\ result = data)

\* the JSON frames among the writes w, in order
JsonFrames(w) == SelectSeq(w, LAMBDA f : f.kind = "json" /\ f.doc # NoDoc)

\* C29: whatever the backend and the writes do, at most one JSON Response
\* is written on a connection: all JSON bytes written belong to one
\* document, and they are consecutive pieces of its text starting at its
\* first byte, so no Response is followed by a second one.
C29_AtMostOneResponse ==
    /\ Cardinality(Docs(written)) <= 1
    /\ LET js == JsonFrames(written)
       IN  /\ js # <<>> => js[1].lo = 0
           /\ \A i \in 1..(Len(js) - 1) : js[i + 1].lo = js[i].hi
           /\ \A i \in DOMAIN js : js[i].hi <= JsonLen(js[i].doc)

\* a list_voices response whose third write failed: two chunks of the
\* success Response were written and nothing after them
C29_Witness ==
    /\ Handled(<<"list_voices">>)
    /\ env.gv.voices = LargeVoices
    /\ env.wfail = 3
    /\ Len(written) = 2
    /\ Docs(written) = {[status |-> "success", voices |-> LargeVoices]}

\* C30: a set_voice request that is answered with status failure, or that
\* is not answered at all although the client is there to read, leaves the
\* registration store exactly as it was before the request.  (Stated for
\* voice ids that hold a "-"; the others are the subject of C3.)
C30_FailedSetVoiceLeavesStore ==
    [][(/\ SetVoiceStep
        /\ HasSplittableVoice'
        /\ env'.wfail = 0
        /\ \/ AnsweredStatus(written') = "failure"
           \/ written' = <<>>)
        => store' = store]_vars

====
